---- MODULE Spec2Model ----
(***************************************************************************)
(* Model of the M3U / M3U-Plus decoder and encoder of sherif-fanous/m3u.   *)
(*                                                                         *)
(* Text is a sequence of lexemes.  A lexeme is a short run of characters   *)
(* that the code never splits: the literals "#EXTM3U" and "#EXTINF:", a    *)
(* single punctuation character, a single digit, or a word of letters,     *)
(* digits and hyphens.  A Go string is a sequence of lexemes, "" is <<>>,  *)
(* and a line break is the lexeme "\n".  A nil pointer, a nil map and a    *)
(* nil slice are <<>>; a non-nil pointer to v is <<v>>.                    *)
(***************************************************************************)
EXTENDS Integers, Sequences, FiniteSets, TLC

\* ------------------------------------------------------------------ bounds

\* The longest stream the reader hands out, in lines.
MaxLines == 5

\* ---------------------------------------------------------------- lexemes

Quote == "\""

Newline == "\n"

\* unicode.IsSpace, as strings.TrimSpace uses it.
Whitespace == {" ", "\t", "\r", Newline}

DigitSeq == <<"0", "1", "2", "3", "4", "5", "6", "7", "8", "9">>

Digits == {DigitSeq[i] : i \in 1..Len(DigitSeq)}

DigitVal(d) == CHOOSE n \in 0..9 : DigitSeq[n + 1] = d

\* Lexemes holding a character outside [\p{L}\p{N}-].  The scheme and the
\* rest of a URL are lexemes of their own ("http:", "//a/").
Punctuated ==
    Whitespace \cup
    {"#", "#EXTM3U", "#EXTINF:", "=", Quote, ",", ".", "%",
     "http:", "HTTP:", "//a/", "//b/", "//e/"}

\* [\p{L}\p{N}-]: a word, a digit or a hyphen.
IsKeyLexeme(x) == x \notin Punctuated

\* -------------------------------------------------------- package strings

RECURSIVE TrimLeft(_)
TrimLeft(s) ==
    IF s # <<>> /\ s[1] \in Whitespace THEN TrimLeft(Tail(s)) ELSE s

RECURSIVE TrimRight(_)
TrimRight(s) ==
    IF s # <<>> /\ s[Len(s)] \in Whitespace
    THEN TrimRight(SubSeq(s, 1, Len(s) - 1))
    ELSE s

TrimSpace(s) == TrimRight(TrimLeft(s))

\* strings.HasPrefix for the three literals the decoder tests.  "#EXTM3U"
\* and "#EXTINF:" are lexemes that begin with the character "#".
HasPrefix(line, prefix) ==
    /\ line # <<>>
    /\ \/ line[1] = prefix
       \/ prefix = "#" /\ line[1] \in {"#EXTM3U", "#EXTINF:"}

\* The index of the first / last occurrence of x in s, 0 when there is none.
IndexOf(s, x) ==
    IF \E i \in 1..Len(s) : s[i] = x
    THEN CHOOSE i \in 1..Len(s) :
            s[i] = x /\ \A j \in 1..(i - 1) : s[j] # x
    ELSE 0

LastIndexOf(s, x) ==
    IF \E i \in 1..Len(s) : s[i] = x
    THEN CHOOSE i \in 1..Len(s) :
            s[i] = x /\ \A j \in (i + 1)..Len(s) : s[j] # x
    ELSE 0

\* The length of the longest prefix of s whose lexemes are all in S.
RECURSIVE RunLen(_, _)
RunLen(s, S) ==
    IF s # <<>> /\ s[1] \in S THEN 1 + RunLen(Tail(s), S) ELSE 0

RECURSIVE KeyRunLen(_)
KeyRunLen(s) ==
    IF s # <<>> /\ IsKeyLexeme(s[1]) THEN 1 + KeyRunLen(Tail(s)) ELSE 0

\* ------------------------------------------------------- package strconv

RECURSIVE NatOf(_)
NatOf(ds) ==
    IF ds = <<>> THEN 0
    ELSE NatOf(SubSeq(ds, 1, Len(ds) - 1)) * 10 + DigitVal(ds[Len(ds)])

RECURSIVE DigitsOf(_)
DigitsOf(n) ==
    IF n < 10 THEN <<DigitSeq[n + 1]>>
    ELSE DigitsOf(n \div 10) \o <<DigitSeq[(n % 10) + 1]>>

\* strconv.ParseFloat on a text matching -?\d+\.?\d*.  A float64 is held in
\* tenths (1.5 is 15); the inputs carry at most one fractional digit.
ParseFloat(s) ==
    LET neg  == s # <<>> /\ s[1] = "-"
        body == IF neg THEN Tail(s) ELSE s
        dot  == IndexOf(body, ".")
        ip   == IF dot = 0 THEN body ELSE SubSeq(body, 1, dot - 1)
        fp   == IF dot = 0 THEN <<>> ELSE SubSeq(body, dot + 1, Len(body))
        abs  == NatOf(ip) * 10 + (IF fp = <<>> THEN 0 ELSE DigitVal(fp[1]))
    IN  IF neg THEN 0 - abs ELSE abs

\* fmt's %.0f: no decimals, a half rounds to the even neighbour.
FormatFloat0(f) ==
    LET abs == IF f < 0 THEN 0 - f ELSE f
        q   == abs \div 10
        r   == abs % 10
        n   == IF r > 5 \/ (r = 5 /\ q % 2 = 1) THEN q + 1 ELSE q
    IN  (IF f < 0 THEN <<"-">> ELSE <<>>) \o DigitsOf(n)

\* ------------------------------------------------------- package net/url

LowerScheme(x) == IF x = "HTTP:" THEN "http:" ELSE x

\* url.Parse: "%" stands for a percent sign that starts no valid escape, the
\* one syntax error of the inputs; the scheme is lower-cased.  The result
\* is [err, url] with url a *url.URL.
URLParse(s) ==
    IF \E i \in 1..Len(s) : s[i] = "%"
    THEN [err |-> TRUE, url |-> <<>>]
    ELSE [err |-> FALSE,
          url |-> << IF s = <<>> THEN <<>>
                     ELSE <<LowerScheme(s[1])>> \o Tail(s) >>]

\* URL.String of a non-nil URL.
URLString(u) == u[1]

\* ------------------------------------------------------------ data model

\* A nil map is <<>>; m[key] = value on a map made on first use.
MapPut(m, key, value) ==
    [k \in (DOMAIN m) \cup {key} |-> IF k = key THEN value ELSE m[k]]

\* The zero Track: Length in tenths, Name a string, the optional strings and
\* URLs nil, the map and the slice nil.
ZeroTrack ==
    [Length |-> 0, Name |-> <<>>, TVGID |-> <<>>, TVGName |-> <<>>,
     TVGLanguage |-> <<>>, TVGLogo |-> <<>>, GroupTitle |-> <<>>,
     URL |-> <<>>, ExtraAttributes |-> <<>>, ExtraDirectives |-> <<>>]

\* Playlist{}.
ZeroPlaylist ==
    [TVGURL |-> <<>>, XTVGURL |-> <<>>, ExtraAttributes |-> <<>>,
     Tracks |-> <<>>]

\* ------------------------------------------------------------------ errors

NoError == [type |-> "nil", Message |-> "", LineNumber |-> 0, Line |-> <<>>]

\* io.EOF, the sentinel bufio.Reader.ReadString returns at the end of the
\* stream.
EOF == [type |-> "io.EOF", Message |-> "EOF", LineNumber |-> 0, Line |-> <<>>]

ErrInvalidPlaylist(message, lineNumber, line) ==
    [type |-> "ErrInvalidPlaylist", Message |-> message,
     LineNumber |-> lineNumber, Line |-> line]

HeaderMissing == "playlist must start with the '#EXTM3U' directive"

HeaderMalformed == "malformed '#EXTM3U' line"

ExtinfMalformed == "malformed '#EXTINF' line"

TrackIncomplete == "'#EXTINF' directive block must end with a URL"

DirectiveOutOfOrder == "'#EXTINF' directive must appear before any other directive"

InvalidURL == "invalid URL"

UnexpectedContent == "unexpected content"

\* ------------------------------------------------------------------ regexes

\* extm3uLineRegex.FindStringSubmatch: the literal #EXTM3U, then nothing or
\* whitespace and any text.  m1 is the text after the whitespace, "" when
\* the group takes no part.
Extm3uLineMatch(line) ==
    LET rest == IF line = <<>> THEN <<>> ELSE Tail(line)
        ws   == RunLen(rest, Whitespace)
    IN  IF line # <<>> /\ line[1] = "#EXTM3U" /\ (rest = <<>> \/ ws >= 1)
        THEN [matched |-> TRUE, m1 |-> SubSeq(rest, ws + 1, Len(rest))]
        ELSE [matched |-> FALSE, m1 |-> <<>>]

\* extinfLineRegex.FindStringSubmatch: the literal #EXTINF:, a number (an
\* optional sign, digits, an optional dot, digits), any text, a comma, any
\* text.  m1 is the longest number the line starts with, m2 runs to the
\* last comma, m3 is what follows it.
ExtinfLineMatch(line) ==
    LET rest  == IF line = <<>> THEN <<>> ELSE Tail(line)
        sign  == IF rest # <<>> /\ rest[1] = "-" THEN 1 ELSE 0
        ip    == RunLen(SubSeq(rest, sign + 1, Len(rest)), Digits)
        dot   == IF sign + ip < Len(rest) /\ rest[sign + ip + 1] = "."
                 THEN 1 ELSE 0
        fp    == RunLen(SubSeq(rest, sign + ip + dot + 1, Len(rest)), Digits)
        n     == sign + ip + dot + fp
        after == SubSeq(rest, n + 1, Len(rest))
        comma == LastIndexOf(after, ",")
    IN  IF line # <<>> /\ line[1] = "#EXTINF:" /\ ip >= 1 /\ comma >= 1
        THEN [matched |-> TRUE,
              m1 |-> SubSeq(rest, 1, n),
              m2 |-> SubSeq(after, 1, comma - 1),
              m3 |-> SubSeq(after, comma + 1, Len(after))]
        ELSE [matched |-> FALSE, m1 |-> <<>>, m2 |-> <<>>, m3 |-> <<>>]

\* attributeRegex anchored at the start of s: a key of letters, digits and
\* hyphens, an equals sign, a quoted value holding no quote.  end is the
\* index of the closing quote.
AttributeMatchAt(s) ==
    LET k     == KeyRunLen(s)
        after == SubSeq(s, k + 3, Len(s))
        close == IndexOf(after, Quote)
    IN  IF k >= 1 /\ Len(s) >= k + 3 /\ s[k + 1] = "=" /\ s[k + 2] = Quote
           /\ close >= 1
        THEN [matched |-> TRUE, key |-> SubSeq(s, 1, k),
              value |-> SubSeq(after, 1, close - 1), end |-> k + 2 + close]
        ELSE [matched |-> FALSE, key |-> <<>>, value |-> <<>>, end |-> 0]

\* attributeRegex.FindAllStringSubmatch(s, -1): the leftmost matches, none
\* overlapping, in order.
RECURSIVE FindAllAttributes(_)
FindAllAttributes(s) ==
    IF s = <<>> THEN <<>>
    ELSE LET m == AttributeMatchAt(s)
         IN  IF m.matched
             THEN <<[key |-> m.key, value |-> m.value]>>
                  \o FindAllAttributes(SubSeq(s, m.end + 1, Len(s)))
             ELSE FindAllAttributes(Tail(s))

\* ----------------------------------------------------------------- decoder

\* SetTrackAttribute keeping under ExtraAttributes a tvg-logo value that
\* does not parse.
SetTrackAttribute_KeepsRawLogo(track, key, value) ==
    CASE key = <<"tvg-id">> -> [track EXCEPT !.TVGID = <<value>>]
      [] key = <<"tvg-name">> -> [track EXCEPT !.TVGName = <<value>>]
      [] key = <<"tvg-language">> -> [track EXCEPT !.TVGLanguage = <<value>>]
      [] key = <<"tvg-logo">> /\ ~URLParse(value).err ->
            [track EXCEPT !.TVGLogo = URLParse(value).url]
      [] key = <<"group-title">> -> [track EXCEPT !.GroupTitle = <<value>>]
      [] OTHER ->
            [track EXCEPT
                !.ExtraAttributes = MapPut(track.ExtraAttributes, key, value)]

\* The body of the switch in parseEXTINFLine for one attribute.
SetTrackAttribute(track, key, value) ==
    CASE key = <<"tvg-id">> -> [track EXCEPT !.TVGID = <<value>>]
      [] key = <<"tvg-name">> -> [track EXCEPT !.TVGName = <<value>>]
      [] key = <<"tvg-language">> -> [track EXCEPT !.TVGLanguage = <<value>>]
      [] key = <<"tvg-logo">> ->
            IF URLParse(value).err THEN track
            ELSE [track EXCEPT !.TVGLogo = URLParse(value).url]
      [] key = <<"group-title">> -> [track EXCEPT !.GroupTitle = <<value>>]
      [] OTHER ->
            [track EXCEPT
                !.ExtraAttributes = MapPut(track.ExtraAttributes, key, value)]

\* The range loop of parseEXTINFLine over matchedAttributes.
RECURSIVE SetTrackAttributes(_, _)
SetTrackAttributes(track, matchedAttributes) ==
    IF matchedAttributes = <<>> THEN track
    ELSE SetTrackAttributes(
            SetTrackAttribute(track, matchedAttributes[1].key,
                              matchedAttributes[1].value),
            Tail(matchedAttributes))

\* Decoder.parseEXTINFLine: [err, track].
parseEXTINFLine(lineNumber, line, track) ==
    LET matches == ExtinfLineMatch(line)
        length  == ParseFloat(matches.m1)
        attributes == TrimSpace(matches.m2)
        withAttributes ==
            SetTrackAttributes([track EXCEPT !.Length = length],
                               FindAllAttributes(attributes))
    IN  IF ~matches.matched
        THEN [err |-> ErrInvalidPlaylist(ExtinfMalformed, lineNumber, line),
              track |-> track]
        ELSE [err |-> NoError,
              track |-> [withAttributes EXCEPT !.Name = TrimSpace(matches.m3)]]

\* SetPlaylistAttribute keeping every key under ExtraAttributes as well.
SetPlaylistAttribute_AlsoExtra(playlist, key, value) ==
    LET kept == [playlist EXCEPT
                    !.ExtraAttributes =
                        MapPut(playlist.ExtraAttributes, key, value)]
    IN  CASE key = <<"url-tvg">> ->
                IF URLParse(value).err THEN kept
                ELSE [kept EXCEPT !.TVGURL = URLParse(value).url]
          [] key = <<"x-tvg-url">> ->
                IF URLParse(value).err THEN kept
                ELSE [kept EXCEPT !.XTVGURL = URLParse(value).url]
          [] OTHER -> kept

\* The body of the switch in parseEXTM3ULine for one attribute.
SetPlaylistAttribute(playlist, key, value) ==
    CASE key = <<"url-tvg">> ->
            IF URLParse(value).err THEN playlist
            ELSE [playlist EXCEPT !.TVGURL = URLParse(value).url]
      [] key = <<"x-tvg-url">> ->
            IF URLParse(value).err THEN playlist
            ELSE [playlist EXCEPT !.XTVGURL = URLParse(value).url]
      [] OTHER ->
            [playlist EXCEPT
                !.ExtraAttributes = MapPut(playlist.ExtraAttributes, key, value)]

\* The range loop of parseEXTM3ULine over matchedAttributes.
RECURSIVE SetPlaylistAttributes(_, _)
SetPlaylistAttributes(playlist, matchedAttributes) ==
    IF matchedAttributes = <<>> THEN playlist
    ELSE SetPlaylistAttributes(
            SetPlaylistAttribute(playlist, matchedAttributes[1].key,
                                 matchedAttributes[1].value),
            Tail(matchedAttributes))

\* Decoder.parseEXTM3ULine: [err, playlist].
parseEXTM3ULine(lineNumber, line, playlist) ==
    LET matches == Extm3uLineMatch(line)
        attributes == TrimSpace(matches.m1)
    IN  IF ~matches.matched
        THEN [err |-> ErrInvalidPlaylist(HeaderMalformed, lineNumber, line),
              playlist |-> playlist]
        ELSE [err |-> NoError,
              playlist |-> SetPlaylistAttributes(playlist,
                                FindAllAttributes(attributes))]

\* bufio.Reader.ReadString('\n') on the unread bytes: the text up to and
\* with the first line break, or all that is left together with io.EOF.
ReadString(data) ==
    LET i == IndexOf(data, Newline)
    IN  IF i = 0
        THEN [line |-> data, rest |-> <<>>, err |-> EOF]
        ELSE [line |-> SubSeq(data, 1, i),
              rest |-> SubSeq(data, i + 1, Len(data)), err |-> NoError]

\* readLine counting only the lines that are not blank.
readLine_SkipsBlankCount(lineNumber, data) ==
    LET rs == ReadString(data)
    IN  [lineNumber |-> lineNumber
                          + (IF TrimSpace(rs.line) = <<>> THEN 0 ELSE 1),
         line |-> TrimSpace(rs.line), err |-> rs.err, rest |-> rs.rest]

\* Decoder.readLine: the counter grows, the line is trimmed, io.EOF passes
\* through.  A strings.Reader has no other read error.
readLine(lineNumber, data) ==
    LET rs == ReadString(data)
    IN  [lineNumber |-> lineNumber + 1, line |-> TrimSpace(rs.line),
         err |-> rs.err, rest |-> rs.rest]

\* A Decode call in progress or returned: pc is "loop" inside the for loop
\* and "returned" after a return, r is the unread rest of the stream.
Activation(pc, lineNumber, r, playlist, currentTrack, err) ==
    [pc |-> pc, lineNumber |-> lineNumber, r |-> r, playlist |-> playlist,
     currentTrack |-> currentTrack, err |-> err]

\* A playlist the caller may hand to Decode: it holds a track of an earlier
\* use.
UsedPlaylist ==
    [ZeroPlaylist EXCEPT
        !.Tracks = <<[ZeroTrack EXCEPT !.Name = <<"old">>,
                                       !.URL = <<<<"http:", "//a/">>>>]>>]

\* Decode without the reset of line 36, called with a used playlist.
DecodeHeader_KeepsContent(lineNumber, data) ==
    LET rl == readLine(lineNumber, data)
        parsed == parseEXTM3ULine(rl.lineNumber, rl.line, UsedPlaylist)
    IN  IF rl.err # NoError
        THEN Activation("returned", rl.lineNumber, rl.rest, UsedPlaylist,
                        <<>>, rl.err)
        ELSE IF ~HasPrefix(rl.line, "#EXTM3U")
        THEN Activation("returned", rl.lineNumber, rl.rest, UsedPlaylist, <<>>,
                 ErrInvalidPlaylist(HeaderMissing, rl.lineNumber, rl.line))
        ELSE IF parsed.err # NoError
        THEN Activation("returned", rl.lineNumber, rl.rest, parsed.playlist,
                        <<>>, parsed.err)
        ELSE Activation("loop", rl.lineNumber, rl.rest, parsed.playlist,
                        <<>>, NoError)

\* Decode counting its lines from 0 on every call.
DecodeHeader_ResetsCounter(lineNumber, data) ==
    LET rl == readLine(0, data)
        parsed == parseEXTM3ULine(rl.lineNumber, rl.line, ZeroPlaylist)
    IN  IF rl.err # NoError
        THEN Activation("returned", rl.lineNumber, rl.rest, ZeroPlaylist,
                        <<>>, rl.err)
        ELSE IF ~HasPrefix(rl.line, "#EXTM3U")
        THEN Activation("returned", rl.lineNumber, rl.rest, ZeroPlaylist, <<>>,
                 ErrInvalidPlaylist(HeaderMissing, rl.lineNumber, rl.line))
        ELSE IF parsed.err # NoError
        THEN Activation("returned", rl.lineNumber, rl.rest, parsed.playlist,
                        <<>>, parsed.err)
        ELSE Activation("loop", rl.lineNumber, rl.rest, parsed.playlist,
                        <<>>, NoError)

\* Decode up to the for loop: the playlist is reset, the header line read,
\* checked and parsed.
DecodeHeader(lineNumber, data) ==
    LET rl == readLine(lineNumber, data)
        parsed == parseEXTM3ULine(rl.lineNumber, rl.line, ZeroPlaylist)
    IN  IF rl.err # NoError
        THEN Activation("returned", rl.lineNumber, rl.rest, ZeroPlaylist,
                        <<>>, rl.err)
        ELSE IF ~HasPrefix(rl.line, "#EXTM3U")
        THEN Activation("returned", rl.lineNumber, rl.rest, ZeroPlaylist, <<>>,
                 ErrInvalidPlaylist(HeaderMissing, rl.lineNumber, rl.line))
        ELSE IF parsed.err # NoError
        THEN Activation("returned", rl.lineNumber, rl.rest, parsed.playlist,
                        <<>>, parsed.err)
        ELSE Activation("loop", rl.lineNumber, rl.rest, parsed.playlist,
                        <<>>, NoError)

\* The conditions of the if chain of the loop body, in order.
LineKind(line, currentTrack) ==
    IF line = <<>> THEN "blank"
    ELSE IF HasPrefix(line, "#EXTINF:") THEN "extinf"
    ELSE IF HasPrefix(line, "#") THEN "directive"
    ELSE IF currentTrack # <<>> /\ currentTrack[1].URL = <<>> THEN "url"
    ELSE "other"

\* The check for io.EOF that ends an iteration in which no branch returned.
AfterLine(a, rl) ==
    IF rl.err = EOF THEN [a EXCEPT !.pc = "returned"] ELSE a

\* BlankBranch closing the open track on a blank line inside the stream.
BlankBranch_ClosesTrack(a, rl) ==
    IF rl.err = EOF
    THEN IF a.currentTrack # <<>>
         THEN [a EXCEPT !.pc = "returned",
                 !.err = ErrInvalidPlaylist(TrackIncomplete, a.lineNumber,
                                            rl.line)]
         ELSE [a EXCEPT !.pc = "returned"]
    ELSE [a EXCEPT !.currentTrack = <<>>]

\* URLBranch closing the open track without adding it to Tracks.
URLBranch_DropsTrack(a, rl) ==
    LET parsedURL == URLParse(rl.line)
    IN  IF parsedURL.err
        THEN [a EXCEPT !.pc = "returned",
                !.err = ErrInvalidPlaylist(InvalidURL, a.lineNumber, rl.line)]
        ELSE AfterLine([a EXCEPT !.currentTrack = <<>>], rl)

\* line == "": at io.EOF an open track is an error and no open track ends
\* the loop; otherwise the line is skipped.
BlankBranch(a, rl) ==
    IF rl.err = EOF
    THEN IF a.currentTrack # <<>>
         THEN [a EXCEPT !.pc = "returned",
                 !.err = ErrInvalidPlaylist(TrackIncomplete, a.lineNumber,
                                            rl.line)]
         ELSE [a EXCEPT !.pc = "returned"]
    ELSE a

\* EXTINFBranch without the check for an open track: the line is parsed and
\* its track replaces the open one.
EXTINFBranch_Reopens(a, rl) ==
    LET parsed == parseEXTINFLine(a.lineNumber, rl.line, ZeroTrack)
    IN  IF parsed.err # NoError
        THEN [a EXCEPT !.pc = "returned", !.err = parsed.err]
        ELSE AfterLine(
                [a EXCEPT !.currentTrack =
                    <<[parsed.track EXCEPT !.ExtraDirectives = <<>>]>>],
                rl)

\* DirectiveBranch skipping a directive that comes while no track is open.
DirectiveBranch_Skips(a, rl) ==
    IF a.currentTrack = <<>>
    THEN AfterLine(a, rl)
    ELSE AfterLine(
            [a EXCEPT !.currentTrack[1].ExtraDirectives =
                Append(a.currentTrack[1].ExtraDirectives, rl.line)],
            rl)

\* A line with the prefix #EXTINF: opens a track unless one is open.
EXTINFBranch(a, rl) ==
    LET parsed == parseEXTINFLine(a.lineNumber, rl.line, ZeroTrack)
    IN  IF a.currentTrack # <<>>
        THEN [a EXCEPT !.pc = "returned",
                !.err = ErrInvalidPlaylist(TrackIncomplete, a.lineNumber,
                                           rl.line)]
        ELSE IF parsed.err # NoError
        THEN [a EXCEPT !.pc = "returned", !.err = parsed.err]
        ELSE AfterLine(
                [a EXCEPT !.currentTrack =
                    <<[parsed.track EXCEPT !.ExtraDirectives = <<>>]>>],
                rl)

\* Any other line with the prefix # is kept on the open track.
DirectiveBranch(a, rl) ==
    IF a.currentTrack = <<>>
    THEN [a EXCEPT !.pc = "returned",
            !.err = ErrInvalidPlaylist(DirectiveOutOfOrder, a.lineNumber,
                                       rl.line)]
    ELSE AfterLine(
            [a EXCEPT !.currentTrack[1].ExtraDirectives =
                Append(a.currentTrack[1].ExtraDirectives, rl.line)],
            rl)

\* URLBranch without the assignment to currentTrack.URL.
URLBranch_URLNotSet(a, rl) ==
    LET parsedURL == URLParse(rl.line)
    IN  IF parsedURL.err
        THEN [a EXCEPT !.pc = "returned",
                !.err = ErrInvalidPlaylist(InvalidURL, a.lineNumber, rl.line)]
        ELSE AfterLine(
                [a EXCEPT
                    !.playlist.Tracks =
                        Append(a.playlist.Tracks, a.currentTrack[1]),
                    !.currentTrack = <<>>],
                rl)

\* URLBranch putting the completed track in front of Tracks.
URLBranch_Prepends(a, rl) ==
    LET parsedURL == URLParse(rl.line)
    IN  IF parsedURL.err
        THEN [a EXCEPT !.pc = "returned",
                !.err = ErrInvalidPlaylist(InvalidURL, a.lineNumber, rl.line)]
        ELSE AfterLine(
                [a EXCEPT
                    !.playlist.Tracks =
                        <<[a.currentTrack[1] EXCEPT !.URL = parsedURL.url]>>
                        \o a.playlist.Tracks,
                    !.currentTrack = <<>>],
                rl)

\* URLBranch leaving the completed track open.
URLBranch_KeepsOpen(a, rl) ==
    LET parsedURL == URLParse(rl.line)
    IN  IF parsedURL.err
        THEN [a EXCEPT !.pc = "returned",
                !.err = ErrInvalidPlaylist(InvalidURL, a.lineNumber, rl.line)]
        ELSE AfterLine(
                [a EXCEPT
                    !.playlist.Tracks =
                        Append(a.playlist.Tracks,
                               [a.currentTrack[1] EXCEPT !.URL = parsedURL.url]),
                    !.currentTrack[1].URL = parsedURL.url],
                rl)

\* The URL line of the open track: the track is completed and appended.
URLBranch(a, rl) ==
    LET parsedURL == URLParse(rl.line)
    IN  IF parsedURL.err
        THEN [a EXCEPT !.pc = "returned",
                !.err = ErrInvalidPlaylist(InvalidURL, a.lineNumber, rl.line)]
        ELSE AfterLine(
                [a EXCEPT
                    !.playlist.Tracks =
                        Append(a.playlist.Tracks,
                               [a.currentTrack[1] EXCEPT !.URL = parsedURL.url]),
                    !.currentTrack = <<>>],
                rl)

\* OtherBranch noting the error and going on with the loop.
OtherBranch_GoesOn(a, rl) ==
    AfterLine(
        [a EXCEPT !.err = ErrInvalidPlaylist(UnexpectedContent, a.lineNumber,
                                             rl.line)],
        rl)

\* OtherBranch skipping the line.
OtherBranch_Skips(a, rl) == AfterLine(a, rl)

\* The final else of the loop body.
OtherBranch(a, rl) ==
    [a EXCEPT !.pc = "returned",
        !.err = ErrInvalidPlaylist(UnexpectedContent, a.lineNumber, rl.line)]

\* One iteration of the for loop of Decode.
LoopIteration(a) ==
    LET rl   == readLine(a.lineNumber, a.r)
        b    == [a EXCEPT !.lineNumber = rl.lineNumber, !.r = rl.rest]
        kind == LineKind(rl.line, a.currentTrack)
    IN  CASE kind = "blank" -> BlankBranch(b, rl)
          [] kind = "extinf" -> EXTINFBranch(b, rl)
          [] kind = "directive" -> DirectiveBranch(b, rl)
          [] kind = "url" -> URLBranch(b, rl)
          [] OTHER -> OtherBranch(b, rl)

RECURSIVE DecodeLoop(_)
DecodeLoop(a) == IF a.pc = "loop" THEN DecodeLoop(LoopIteration(a)) ELSE a

\* Decoder.Decode on a Decoder whose counter is lineNumber and whose
\* unread stream is data.
Decode(lineNumber, data) == DecodeLoop(DecodeHeader(lineNumber, data))

\* Unmarshal: a nil playlist with the error, or the playlist.
Unmarshal(data) ==
    LET a == Decode(0, data)
    IN  IF a.err # NoError
        THEN [playlist |-> <<>>, err |-> a.err]
        ELSE [playlist |-> <<a.playlist>>, err |-> NoError]

\* ----------------------------------------------------------------- encoder

RECURSIVE Flatten(_)
Flatten(ss) == IF ss = <<>> THEN <<>> ELSE ss[1] \o Flatten(Tail(ss))

\* The orders in which a range loop may visit the keys of map m: Go fixes
\* none.
KeyOrders(m) ==
    {o \in [1..Cardinality(DOMAIN m) -> DOMAIN m] :
        \A k \in DOMAIN m : \E i \in DOMAIN o : o[i] = k}

\* One write per key of m, in the order given: a space, key="value".
ExtraAttributeWrites(m, order) ==
    [i \in 1..Len(order) |->
        <<" ">> \o order[i] \o <<"=", Quote>> \o m[order[i]] \o <<Quote>>]

\* The writes of Encode for the #EXTM3U line.
HeaderWrites(playlist, order) ==
    <<<<"#EXTM3U">>>>
    \o (IF playlist.TVGURL # <<>>
        THEN << <<" ", "url-tvg", "=", Quote>>
                \o URLString(playlist.TVGURL) \o <<Quote>> >>
        ELSE <<>>)
    \o (IF playlist.XTVGURL # <<>>
        THEN << <<" ", "x-tvg-url", "=", Quote>>
                \o URLString(playlist.XTVGURL) \o <<Quote>> >>
        ELSE <<>>)
    \o ExtraAttributeWrites(playlist.ExtraAttributes, order)
    \o <<<<Newline>>>>

\* A write of an optional string attribute of a track.
AttributeWrite(name, pointer) ==
    IF pointer # <<>>
    THEN << <<" ", name, "=", Quote>> \o pointer[1] \o <<Quote>> >>
    ELSE <<>>

\* The writes for the attributes of a track in the M3UPlus branch.
PlusAttributeWrites(track, order) ==
    AttributeWrite("tvg-id", track.TVGID)
    \o AttributeWrite("tvg-name", track.TVGName)
    \o AttributeWrite("tvg-language", track.TVGLanguage)
    \o (IF track.TVGLogo # <<>>
        THEN << <<" ", "tvg-logo", "=", Quote>>
                \o URLString(track.TVGLogo) \o <<Quote>> >>
        ELSE <<>>)
    \o AttributeWrite("group-title", track.GroupTitle)
    \o ExtraAttributeWrites(track.ExtraAttributes, order)

\* The writes after the #EXTINF: line of a track: directives, then the URL.
AfterExtinfWrites(track) ==
    [i \in 1..Len(track.ExtraDirectives) |->
        track.ExtraDirectives[i] \o <<Newline>>]
    \o (IF track.URL # <<>>
        THEN << URLString(track.URL) \o <<Newline>> >>
        ELSE <<>>)

\* TrackWrites taking the M3UPlus branch whatever the playlist type.
TrackWrites_AttributesAlways(track, playlistType, order) ==
    << <<"#EXTINF:">> \o FormatFloat0(track.Length) >>
    \o PlusAttributeWrites(track, order)
    \o << <<",">> \o track.Name \o <<Newline>> >>
    \o AfterExtinfWrites(track)

\* TrackWrites writing tvg-logo after group-title.
TrackWrites_LogoLast(track, playlistType, order) ==
    << <<"#EXTINF:">> \o FormatFloat0(track.Length) >>
    \o (IF playlistType = "M3UPlus"
        THEN PlusAttributeWrites([track EXCEPT !.TVGLogo = <<>>], <<>>)
             \o PlusAttributeWrites(
                    [ZeroTrack EXCEPT !.TVGLogo = track.TVGLogo,
                        !.ExtraAttributes = track.ExtraAttributes], order)
        ELSE <<>>)
    \o << <<",">> \o track.Name \o <<Newline>> >>
    \o AfterExtinfWrites(track)

\* The writes of Encode for one track.
TrackWrites(track, playlistType, order) ==
    (IF playlistType = "M3UPlus"
     THEN << <<"#EXTINF:">> \o FormatFloat0(track.Length) >>
          \o AttributeWrite("tvg-id", track.TVGID)
          \o AttributeWrite("tvg-name", track.TVGName)
          \o AttributeWrite("tvg-language", track.TVGLanguage)
          \o (IF track.TVGLogo # <<>>
              THEN << <<" ", "tvg-logo", "=", Quote>>
                      \o URLString(track.TVGLogo) \o <<Quote>> >>
              ELSE <<>>)
          \o AttributeWrite("group-title", track.GroupTitle)
          \o ExtraAttributeWrites(track.ExtraAttributes, order)
     ELSE << <<"#EXTINF:">> \o FormatFloat0(track.Length) >>)
    \o << <<",">> \o track.Name \o <<Newline>> >>
    \o [i \in 1..Len(track.ExtraDirectives) |->
            track.ExtraDirectives[i] \o <<Newline>>]
    \o (IF track.URL # <<>>
        THEN << URLString(track.URL) \o <<Newline>> >>
        ELSE <<>>)

\* Encoder.Encode with every write succeeding: the writes in order, for the
\* key orders the range loops take (orders[1] for the playlist, orders[i + 1]
\* for track i).
EncodeWrites(playlist, playlistType, orders) ==
    HeaderWrites(playlist, orders[1])
    \o Flatten([i \in 1..Len(playlist.Tracks) |->
                    TrackWrites(playlist.Tracks[i], playlistType,
                                orders[i + 1])])

\* The key orders one Encode call may take.
EncodeOrders(playlist) ==
    LET n    == Len(playlist.Tracks)
        m(i) == IF i = 1 THEN playlist.ExtraAttributes
                ELSE playlist.Tracks[i - 1].ExtraAttributes
        all  == UNION {KeyOrders(m(i)) : i \in 1..(n + 1)}
    IN  {os \in [1..(n + 1) -> all] : \A i \in 1..(n + 1) : os[i] \in KeyOrders(m(i))}

\* Marshal: the bytes a strings.Builder collects.
Marshal(playlist, playlistType, orders) ==
    Flatten(EncodeWrites(playlist, playlistType, orders))

\* The error of a Write call that fails.
WriteError ==
    [type |-> "write error", Message |-> "write error", LineNumber |-> 0,
     Line |-> <<>>]

\* The outcome of an Encode call: the number of Write calls made on the
\* stream, the bytes the stream took, the error returned.
EncodeResult(calls, written, err) ==
    [calls |-> calls, written |-> written, err |-> err]

\* Encode going on with the next fragment after a write that failed.
Encode_GoesOn(playlist, playlistType, orders, failAt) ==
    LET writes == EncodeWrites(playlist, playlistType, orders)
    IN  IF failAt \in 1..Len(writes)
        THEN EncodeResult(Len(writes),
                          Flatten(SubSeq(writes, 1, failAt - 1))
                          \o Flatten(SubSeq(writes, failAt + 1, Len(writes))),
                          WriteError)
        ELSE EncodeResult(Len(writes), Flatten(writes), NoError)

\* Encoder.Encode on a stream whose Write call number failAt fails and takes
\* nothing of its fragment (no call fails when failAt is 0): every write is
\* followed by a test of its error and a return.
Encode(playlist, playlistType, orders, failAt) ==
    LET writes == EncodeWrites(playlist, playlistType, orders)
    IN  IF failAt \in 1..Len(writes)
        THEN EncodeResult(failAt, Flatten(SubSeq(writes, 1, failAt - 1)),
                          WriteError)
        ELSE EncodeResult(Len(writes), Flatten(writes), NoError)

\* ------------------------------------------------------------------ inputs

\* The lines a stream is made of, without their line break.
Lines ==
    { <<"#EXTM3U">>,
      <<"#EXTM3U", " ", "url-tvg", "=", Quote, "HTTP:", "//e/", Quote,
        " ", "foo", "=", Quote, "bar", Quote,
        " ", "x-tvg-url", "=", Quote, "%", Quote>>,
      <<"#EXTM3U", "x">>,
      <<"#EXTM3U", " ", "junk">>,
      <<"#EXTINF:", "-", "1", ",", "n1">>,
      <<"#EXTINF:", "1", ".", "5", " ", "tvg-id", "=", Quote, "i1", Quote,
        " ", "tvg-name", "=", Quote, "t2", Quote,
        " ", "tvg-language", "=", Quote, "l2", Quote,
        " ", "tvg-logo", "=", Quote, "HTTP:", "//e/", Quote,
        " ", "group-title", "=", Quote, "g2", Quote,
        " ", "k1", "=", Quote, "v1", Quote,
        " ", "k2", "=", Quote, "v2", Quote,
        " ", "tvg-logo", "=", Quote, "%", Quote, ",", "n2">>,
      <<"#EXTINF:", "NaN", ",", "n1">>,
      <<"#EXTINF:", "2", " ", "junk", ",", "n3">>,
      <<"#EXTINF:", "3", " ", "tvg-logo", "=", Quote, "%", Quote,
        " ", "tvg-name", "=", Quote, "t4", Quote, ",", "n4">>,
      <<"#", "EXTVLCOPT">>,
      <<"http:", "//a/">>,
      <<"HTTP:", "//b/">>,
      <<"http:", "//a/", "%">>,
      <<>>,
      <<" ">> }

\* The header lines that carry attributes or a remainder: the stream has
\* them as its first line only.  The bare #EXTM3U line may come anywhere.
FirstLineOnly ==
    {l \in Lines : HasPrefix(l, "#EXTM3U") /\ Len(l) > 1}

\* ------------------------------------------------------------------- state

VARIABLES
    pc,            \* "new" after NewDecoder, "loop" inside Decode's loop,
                   \* "returned" after Decode, then "marshalled", "reparsed"
                   \* or "encoded"
    lineNumber,    \* Decoder.lineNumber
    eof,           \* the reader has reached the end of the stream
    consumed,      \* the bytes of the stream read so far
    playlist,      \* the caller's Playlist, which Decode writes through
    currentTrack,  \* Decode's currentTrack: <<>> or <<track>>
    err,           \* what Decode returned
    playlistType,  \* the format Marshal was called with
    output,        \* the bytes Marshal returned
    reparsed,      \* what Unmarshal(output) returned
    failAt,        \* the Write call that fails on the stream Encode writes to
    encoded,       \* the outcome of Encode on that stream
    first          \* <<>>, or <<what the Decoder and the caller's Playlist
                   \* held when Decode was called on the Decoder again>>

vars == <<pc, lineNumber, eof, consumed, playlist, currentTrack, err,
          playlistType, output, reparsed, failAt, encoded, first>>

encVars == <<playlistType, output, reparsed, failAt, encoded>>

Init ==
    /\ pc = "new"
    /\ lineNumber = 0
    /\ eof = FALSE
    /\ consumed = <<>>
    /\ playlist \in {ZeroPlaylist, UsedPlaylist}
    /\ currentTrack = <<>>
    /\ err = NoError
    /\ playlistType = "M3U"
    /\ output = <<>>
    /\ reparsed = [playlist |-> <<>>, err |-> NoError]
    /\ failAt = 0
    /\ encoded = EncodeResult(0, <<>>, NoError)
    /\ first = <<>>

\* What the next ReadString call finds unread: a line with its line break,
\* or the last line of the stream without one ("" when nothing is left).
NextChunks ==
    LET ls == IF lineNumber = 0 THEN Lines ELSE Lines \ FirstLineOnly
    IN  IF eof \/ lineNumber >= MaxLines THEN {<<>>}
        ELSE {l \o <<Newline>> : l \in ls} \cup ls

\* The state after a step of Decode that read chunk and led to activation a.
Install(a, chunk) ==
    /\ pc' = a.pc
    /\ lineNumber' = a.lineNumber
    /\ eof' = (IndexOf(chunk, Newline) = 0)
    /\ consumed' = consumed \o chunk
    /\ playlist' = a.playlist
    /\ currentTrack' = a.currentTrack
    /\ err' = a.err
    /\ UNCHANGED encVars

\* Decode is called: lines 36 to 56.
DecodeStart ==
    /\ pc = "new"
    /\ \E chunk \in NextChunks :
            Install(DecodeHeader(lineNumber, chunk), chunk)
    /\ UNCHANGED first

\* Decode is called again on the Decoder of a Decode that returned, with the
\* Playlist that call left: the reader and the counter are those of the
\* Decoder, which no call resets.
DecodeAgain ==
    /\ pc = "returned"
    /\ first = <<>>
    /\ first' = <<[lineNumber |-> lineNumber, read |-> Len(consumed),
                   eof |-> eof, playlist |-> playlist, err |-> err]>>
    /\ \E chunk \in NextChunks :
            Install(DecodeHeader(lineNumber, chunk), chunk)

\* One iteration of the loop of Decode on the next chunk of the stream.
Iterate(chunk) ==
    Install(LoopIteration(Activation("loop", lineNumber, chunk, playlist,
                                     currentTrack, err)),
            chunk)

\* An iteration that reads a blank line, or nothing at the end of the stream.
ReadBlank ==
    /\ pc = "loop"
    /\ \E chunk \in NextChunks :
        /\ LineKind(TrimSpace(chunk), currentTrack) = "blank"
        /\ Iterate(chunk)
    /\ UNCHANGED first

\* An iteration that reads an #EXTINF: line.
ReadEXTINF ==
    /\ pc = "loop"
    /\ \E chunk \in NextChunks :
        /\ LineKind(TrimSpace(chunk), currentTrack) = "extinf"
        /\ Iterate(chunk)
    /\ UNCHANGED first

\* An iteration that reads another directive.
ReadDirective ==
    /\ pc = "loop"
    /\ \E chunk \in NextChunks :
        /\ LineKind(TrimSpace(chunk), currentTrack) = "directive"
        /\ Iterate(chunk)
    /\ UNCHANGED first

\* An iteration that reads the URL line of the open track.
ReadURL ==
    /\ pc = "loop"
    /\ \E chunk \in NextChunks :
        /\ LineKind(TrimSpace(chunk), currentTrack) = "url"
        /\ Iterate(chunk)
    /\ UNCHANGED first

\* An iteration that reads any other line.
ReadOther ==
    /\ pc = "loop"
    /\ \E chunk \in NextChunks :
        /\ LineKind(TrimSpace(chunk), currentTrack) = "other"
        /\ Iterate(chunk)
    /\ UNCHANGED first

\* The caller marshals the playlist a successful Decode gave.
DoMarshal ==
    /\ pc = "returned"
    /\ err = NoError
    /\ \E t \in {"M3U", "M3UPlus"}, orders \in EncodeOrders(playlist) :
        /\ playlistType' = t
        /\ output' = Marshal(playlist, t, orders)
    /\ pc' = "marshalled"
    /\ UNCHANGED <<lineNumber, eof, consumed, playlist, currentTrack, err,
                   reparsed, failAt, encoded, first>>

\* The caller unmarshals what Marshal gave.
DoUnmarshal ==
    /\ pc = "marshalled"
    /\ reparsed' = Unmarshal(output)
    /\ pc' = "reparsed"
    /\ UNCHANGED <<lineNumber, eof, consumed, playlist, currentTrack, err,
                   playlistType, output, failAt, encoded, first>>

\* The caller encodes the playlist a successful Decode gave to a stream one
\* of whose Write calls fails.
DoEncode ==
    /\ pc = "returned"
    /\ err = NoError
    /\ \E t \in {"M3U", "M3UPlus"}, orders \in EncodeOrders(playlist) :
        \E f \in 1..Len(EncodeWrites(playlist, t, orders)) :
            /\ playlistType' = t
            /\ failAt' = f
            /\ encoded' = Encode(playlist, t, orders, f)
    /\ pc' = "encoded"
    /\ UNCHANGED <<lineNumber, eof, consumed, playlist, currentTrack, err,
                   output, reparsed, first>>

Next ==
    \/ DecodeStart
    \/ ReadBlank
    \/ ReadEXTINF
    \/ ReadDirective
    \/ ReadURL
    \/ ReadOther
    \/ DoMarshal
    \/ DoUnmarshal

Spec == Init /\ [][Next]_vars

\* A decode followed by Encode on a stream that fails.
NextEncode ==
    \/ DecodeStart
    \/ ReadBlank
    \/ ReadEXTINF
    \/ ReadDirective
    \/ ReadURL
    \/ ReadOther
    \/ DoEncode

SpecEncode == Init /\ [][NextEncode]_vars

\* Two Decode calls on one Decoder.
NextAgain ==
    \/ DecodeStart
    \/ DecodeAgain
    \/ ReadBlank
    \/ ReadEXTINF
    \/ ReadDirective
    \/ ReadURL
    \/ ReadOther

SpecAgain == Init /\ [][NextAgain]_vars

\* ------------------------------------------------------- the stream, read

\* The trimmed lines of data, one per line break, and a last one for what
\* follows the last line break, if anything does.
RECURSIVE SplitLines(_)
SplitLines(data) ==
    IF data = <<>> THEN <<>>
    ELSE <<TrimSpace(ReadString(data).line)>>
         \o SplitLines(ReadString(data).rest)

\* The lines readLine has returned so far: at the end of a stream that ends
\* with a line break (or is empty) the last read returned "".
LinesRead ==
    SplitLines(consumed)
    \o (IF eof /\ (consumed = <<>> \/ consumed[Len(consumed)] = Newline)
        THEN <<<<>>>> ELSE <<>>)

\* The lines after the header line.
BodyLines == Tail(SplitLines(consumed))

ExtinfLines == SelectSeq(BodyLines, LAMBDA l : HasPrefix(l, "#EXTINF:"))

URLLines == SelectSeq(BodyLines, LAMBDA l : l # <<>> /\ ~HasPrefix(l, "#"))

\* What Unmarshal hands its caller for the Decode call of this state.
Outcome ==
    IF err # NoError THEN [playlist |-> <<>>, err |-> err]
    ELSE [playlist |-> <<playlist>>, err |-> NoError]

\* Two outcomes agree: both fail with the same kind of error and the same
\* message, or both succeed with the same playlist.
SameOutcome(x, y) ==
    /\ x.playlist = y.playlist
    /\ x.err.type = y.err.type
    /\ x.err.Message = y.err.Message

\* --------------------------------------------------------------- C1 .. C10

\* C1: for every playlist a decode produced, Marshal in M3UPlus followed by
\* Unmarshal succeeds and gives back a playlist equal to it, whatever order
\* the extra attributes are written in.
C1_RoundTrip ==
    (pc = "reparsed" /\ playlistType = "M3UPlus")
        => reparsed = [playlist |-> <<playlist>>, err |-> NoError]

\* C2: a stream whose last line (a header, an #EXTINF line, a directive or
\* a URL line) has no line break decodes to the same outcome as the same
\* stream with a line break appended.
C2_TrailingNewlineIrrelevant ==
    (pc = "returned" /\ eof /\ consumed # <<>>
        /\ consumed[Len(consumed)] # Newline
        /\ LinesRead[lineNumber] # <<>>)
        => SameOutcome(Outcome, Unmarshal(consumed \o <<Newline>>))

\* C3: Decode never returns success while the track an #EXTINF line opened
\* still waits for its URL line: a stream that ends there gives the
\* TrackIncomplete error, with or without a last line break.
C3_OpenTrackAtEndFails ==
    (pc = "returned" /\ eof /\ currentTrack # <<>>)
        => /\ err.type = "ErrInvalidPlaylist"
           /\ LineKind(LinesRead[lineNumber], <<>>) # "other"
                => err.Message = TrackIncomplete

\* C4: in every state of a decode and in every playlist returned, each track
\* of playlist.Tracks has a URL, and the open track is not in Tracks.
C4_TracksHaveURL ==
    /\ \A i \in 1..Len(playlist.Tracks) : playlist.Tracks[i].URL # <<>>
    /\ currentTrack # <<>> => currentTrack[1].URL = <<>>
    /\ reparsed.playlist # <<>> =>
          \A i \in 1..Len(reparsed.playlist[1].Tracks) :
              reparsed.playlist[1].Tracks[i].URL # <<>>

C4_Witness ==
    /\ pc = "loop"
    /\ Len(playlist.Tracks) >= 1
    /\ currentTrack # <<>>
    /\ currentTrack[1].ExtraDirectives # <<>>

\* C5: after a successful decode Tracks holds one track per URL line, in
\* source order: track k has the metadata of the k-th #EXTINF line, the
\* URL of the k-th URL line.
C5_TracksInSourceOrder ==
    (pc = "returned" /\ err = NoError)
        => LET urls == URLLines
               extinf == ExtinfLines
           IN  /\ Len(playlist.Tracks) = Len(urls)
               /\ Len(extinf) >= Len(urls)
               /\ \A k \in 1..Len(playlist.Tracks) :
                    /\ playlist.Tracks[k].URL = URLParse(urls[k]).url
                    /\ [playlist.Tracks[k] EXCEPT !.URL = <<>>,
                                                 !.ExtraDirectives = <<>>]
                         = parseEXTINFLine(0, extinf[k], ZeroTrack).track

C5_Witness ==
    /\ pc = "returned"
    /\ err = NoError
    /\ Len(playlist.Tracks) = 2
    /\ playlist.Tracks[1].Name # playlist.Tracks[2].Name
    /\ playlist.Tracks[1].URL # playlist.Tracks[2].URL

\* C6: every error Decode returns is an ErrInvalidPlaylist value.
C6_OnlyErrInvalidPlaylist ==
    (pc = "returned" /\ err # NoError) => err.type = "ErrInvalidPlaylist"

\* C7: after a failed Decode the caller's Playlist holds no track and no
\* attribute of the lines read before the violation.
C7_NoPartialResult ==
    (pc = "returned" /\ err # NoError) => playlist = ZeroPlaylist

\* C8: a diagnostic is for the line read last and carries its number and
\* text; whatever follows that line in the stream is left unread and leaves
\* the diagnostic as it is.
C8_FirstViolationOnly ==
    (pc = "returned" /\ err.type = "ErrInvalidPlaylist")
        => /\ err.LineNumber = lineNumber
           /\ Len(LinesRead) = lineNumber
           /\ err.Line = LinesRead[lineNumber]
           /\ ~eof => \A l \in Lines \ FirstLineOnly :
                        LET a == Decode(0, consumed \o l \o <<Newline>>)
                        IN  /\ Unmarshal(consumed \o l).err = err
                            /\ a.err = err
                            /\ a.r = l \o <<Newline>>

C8_Witness ==
    /\ pc = "returned"
    /\ err.type = "ErrInvalidPlaylist"
    /\ ~eof
    /\ lineNumber >= 3
    /\ Len(playlist.Tracks) >= 1

\* C9: a stream whose first line does not begin with #EXTM3U fails with the
\* HeaderMissing diagnostic for line 1.
C9_HeaderMissing ==
    (pc = "returned" /\ consumed # <<>> /\ LinesRead[1] # <<>>
        /\ ~HasPrefix(LinesRead[1], "#EXTM3U"))
        => err = ErrInvalidPlaylist(HeaderMissing, 1, LinesRead[1])

\* s is zero or more key="value" pairs, separated by whitespace.
RECURSIVE IsAttributeList(_)
IsAttributeList(s) ==
    \/ s = <<>>
    \/ /\ AttributeMatchAt(s).matched
       /\ LET rest == SubSeq(s, AttributeMatchAt(s).end + 1, Len(s))
          IN  rest = <<>> \/ (rest[1] \in Whitespace
                              /\ IsAttributeList(TrimLeft(rest)))

\* C10: a header line is accepted only if what follows #EXTM3U is empty or
\* is whitespace and then zero or more key="value" pairs; any other
\* remainder is the HeaderMalformed error.
C10_HeaderGrammar ==
    (pc # "new" /\ consumed # <<>> /\ HasPrefix(LinesRead[1], "#EXTM3U")
        /\ ~(eof /\ lineNumber = 1))
        => LET rest == Tail(LinesRead[1])
               wellFormed ==
                   \/ rest = <<>>
                   \/ rest[1] \in Whitespace /\ IsAttributeList(TrimLeft(rest))
           IN  IF wellFormed
               THEN ~(lineNumber = 1 /\ err # NoError)
               ELSE err = ErrInvalidPlaylist(HeaderMalformed, 1, LinesRead[1])

\* -------------------------------------------------------------- C11 .. C20

\* The line read last.
LastLine == LinesRead[lineNumber]

\* A track is open when line n is read: an #EXTINF: line came before it and
\* only blank lines and other directives lie between the two.
OpenBefore(n) ==
    LET read == LinesRead
    IN  \E j \in 2..(n - 1) :
            /\ HasPrefix(read[j], "#EXTINF:")
            /\ \A k \in (j + 1)..(n - 1) :
                  LineKind(read[k], <<>>) \in {"blank", "directive"}

\* line has the shape #EXTINF:, a signed decimal number, zero or more
\* key="value" pairs separated by whitespace, a comma, a name.
ExtinfWellFormed(line) ==
    /\ ExtinfLineMatch(line).matched
    /\ IsAttributeList(TrimSpace(ExtinfLineMatch(line).m2))

\* C11: an #EXTINF: line read while no track is open and not of the shape
\* number, key="value" pairs, comma, name gives the ExtinfMalformed error
\* for that line.
C11_ExtinfGrammar ==
    (pc # "new" /\ lineNumber >= 2 /\ HasPrefix(LastLine, "#EXTINF:")
        /\ ~OpenBefore(lineNumber) /\ ~ExtinfWellFormed(LastLine))
        => err = ErrInvalidPlaylist(ExtinfMalformed, lineNumber, LastLine)

\* The #EXTINF: line that opened the track open when line n is read.
OpenedAt(n) ==
    LET read == LinesRead
    IN  CHOOSE j \in 2..(n - 1) :
            /\ HasPrefix(read[j], "#EXTINF:")
            /\ \A k \in (j + 1)..(n - 1) :
                  LineKind(read[k], <<>>) \in {"blank", "directive"}

\* The directives among lines i .. j.
DirectivesBetween(i, j) ==
    SelectSeq(SubSeq(LinesRead, i, j),
              LAMBDA l : LineKind(l, <<>>) = "directive")

\* C12: an #EXTINF: line read while a track is open, whatever directives and
\* blank lines lie between, ends Decode with TrackIncomplete for that line;
\* the line is not parsed (the open track stays that of the first #EXTINF:
\* line) and Tracks gets no track.
C12_SecondExtinfFails ==
    (pc \in {"loop", "returned"} /\ lineNumber >= 3 /\ HasPrefix(LastLine, "#EXTINF:")
        /\ OpenBefore(lineNumber))
        => /\ pc = "returned"
           /\ err = ErrInvalidPlaylist(TrackIncomplete, lineNumber, LastLine)
           /\ Len(playlist.Tracks) = Len(URLLines)
           /\ currentTrack =
                <<[parseEXTINFLine(0, LinesRead[OpenedAt(lineNumber)],
                                   ZeroTrack).track
                    EXCEPT !.ExtraDirectives =
                        DirectivesBetween(OpenedAt(lineNumber) + 1,
                                          lineNumber - 1)]>>

C12_Witness ==
    /\ pc = "returned"
    /\ lineNumber >= 5
    /\ LastLine = <<"#EXTINF:", "NaN", ",", "n1">>
    /\ LineKind(LinesRead[lineNumber - 1], <<>>) = "blank"
    /\ LineKind(LinesRead[lineNumber - 2], <<>>) = "directive"
    /\ err.Message = TrackIncomplete

\* C13: a line that begins with # but not with #EXTINF:, read while no track
\* is open (right after the header or after a completed track), ends Decode
\* with DirectiveOutOfOrder for that line.
C13_DirectiveOutOfOrder ==
    (pc \in {"loop", "returned"} /\ lineNumber >= 2
        /\ LineKind(LastLine, <<>>) = "directive"
        /\ ~OpenBefore(lineNumber))
        => /\ pc = "returned"
           /\ err = ErrInvalidPlaylist(DirectiveOutOfOrder, lineNumber,
                                       LastLine)
           /\ Len(playlist.Tracks) = Len(URLLines)

C13_Witness ==
    /\ pc = "returned"
    /\ err.Message = DirectiveOutOfOrder
    /\ Len(playlist.Tracks) >= 1
    /\ LineKind(LinesRead[lineNumber - 1], <<>>) = "blank"

\* The index in LinesRead of the k-th line of the body that has property P.
NthLine(P(_), k) ==
    LET read == LinesRead
    IN  CHOOSE j \in 2..Len(read) :
            /\ P(read[j])
            /\ Cardinality({i \in 2..(j - 1) : P(read[i])}) = k - 1

IsExtinfLine(l) == HasPrefix(l, "#EXTINF:")

IsURLLine(l) == l # <<>> /\ ~HasPrefix(l, "#")

\* C14: after a successful decode the ExtraDirectives of track k are the
\* lines beginning with # between the k-th #EXTINF: line and the k-th URL
\* line, in order and as read; none of them is an #EXTINF or an #EXTM3U
\* directive.
C14_ExtraDirectives ==
    (pc = "returned" /\ err = NoError)
        => \A k \in 1..Len(playlist.Tracks) :
             LET ds == playlist.Tracks[k].ExtraDirectives
             IN  /\ ds = DirectivesBetween(NthLine(IsExtinfLine, k) + 1,
                                           NthLine(IsURLLine, k) - 1)
                 /\ \A i \in 1..Len(ds) :
                       /\ HasPrefix(ds[i], "#")
                       /\ ~HasPrefix(ds[i], "#EXTINF:")
                       /\ ~Extm3uLineMatch(ds[i]).matched

\* C15: a non-blank line that does not begin with #, read while no track is
\* open, ends Decode with UnexpectedContent for that line; it is not taken
\* as a URL, so Tracks gets no track.
C15_UnexpectedContent ==
    (pc \in {"loop", "returned"} /\ lineNumber >= 2 /\ IsURLLine(LastLine)
        /\ ~OpenBefore(lineNumber))
        => /\ pc = "returned"
           /\ err = ErrInvalidPlaylist(UnexpectedContent, lineNumber, LastLine)
           /\ Len(playlist.Tracks) = Len(URLLines) - 1
           /\ currentTrack = <<>>

C15_Witness ==
    /\ pc = "returned"
    /\ err.Message = UnexpectedContent
    /\ Len(playlist.Tracks) >= 1
    /\ URLParse(LastLine).err = FALSE

\* C16: a non-blank line that does not begin with #, read while a track is
\* open, is parsed as the URL of that track.  If parsing fails Decode ends
\* with InvalidURL carrying the line and Tracks gets no track; if it
\* succeeds the track, with that URL, is the new last element of Tracks and
\* no track is open.
C16_URLLine ==
    (pc \in {"loop", "returned"} /\ lineNumber >= 3 /\ IsURLLine(LastLine)
        /\ OpenBefore(lineNumber))
        => LET opened == OpenedAt(lineNumber)
               track  ==
                   [parseEXTINFLine(0, LinesRead[opened], ZeroTrack).track
                       EXCEPT !.ExtraDirectives =
                           DirectivesBetween(opened + 1, lineNumber - 1)]
           IN  IF URLParse(LastLine).err
               THEN /\ pc = "returned"
                    /\ err = ErrInvalidPlaylist(InvalidURL, lineNumber,
                                                LastLine)
                    /\ Len(playlist.Tracks) = Len(URLLines) - 1
               ELSE /\ err = NoError
                    /\ Len(playlist.Tracks) = Len(URLLines)
                    /\ playlist.Tracks[Len(playlist.Tracks)]
                         = [track EXCEPT !.URL = URLParse(LastLine).url]
                    /\ currentTrack = <<>>

C16_Witness ==
    /\ pc = "returned"
    /\ err.Message = InvalidURL
    /\ err.Line = <<"http:", "//a/", "%">>
    /\ Len(playlist.Tracks) >= 1
    /\ currentTrack # <<>>

PlaylistKeys == {<<"url-tvg">>, <<"x-tvg-url">>}

TrackKeys ==
    {<<"tvg-id">>, <<"tvg-name">>, <<"tvg-language">>, <<"tvg-logo">>,
     <<"group-title">>}

\* Map m holds none of the keys of recognized and, for every other key of
\* the key="value" pairs found in text, the value of the last pair with it.
HoldsExtras(m, text, recognized) ==
    LET pairs == FindAllAttributes(text)
    IN  /\ \A key \in DOMAIN m : key \notin recognized
        /\ \A i \in 1..Len(pairs) :
              (/\ pairs[i].key \notin recognized
               /\ \A j \in (i + 1)..Len(pairs) : pairs[j].key # pairs[i].key)
                  => /\ pairs[i].key \in DOMAIN m
                     /\ m[pairs[i].key] = pairs[i].value

\* C17: once the header is parsed the playlist's ExtraAttributes never holds
\* url-tvg or x-tvg-url and holds every other key of the header line with
\* its raw value; the ExtraAttributes of every track, the open one included,
\* never holds tvg-id, tvg-name, tvg-language, tvg-logo or group-title and
\* holds every other key of the track's #EXTINF: line with its raw value.
C17_ExtraAttributes ==
    (pc \in {"loop", "returned"} /\ ~(lineNumber = 1 /\ err # NoError))
        => LET read == LinesRead
               extinf == ExtinfLines
           IN  /\ HoldsExtras(playlist.ExtraAttributes, Tail(read[1]),
                              PlaylistKeys)
               /\ \A k \in 1..Len(playlist.Tracks) :
                    HoldsExtras(playlist.Tracks[k].ExtraAttributes,
                                ExtinfLineMatch(extinf[k]).m2, TrackKeys)
               /\ currentTrack # <<>> =>
                    HoldsExtras(currentTrack[1].ExtraAttributes,
                                ExtinfLineMatch(
                                    extinf[Len(playlist.Tracks) + 1]).m2,
                                TrackKeys)

C17_Witness ==
    /\ pc = "returned"
    /\ err = NoError
    /\ playlist.TVGURL # <<>>
    /\ DOMAIN playlist.ExtraAttributes = {<<"foo">>}
    /\ Len(playlist.Tracks) >= 1
    /\ playlist.Tracks[1].TVGID # <<>>
    /\ DOMAIN playlist.Tracks[1].ExtraAttributes = {<<"k1">>, <<"k2">>}

\* line is an #EXTINF: line with a tvg-logo attribute and every tvg-logo
\* value on it fails URL parsing.
HasBadLogo(line) ==
    LET pairs == FindAllAttributes(ExtinfLineMatch(line).m2)
    IN  /\ ExtinfLineMatch(line).matched
        /\ \E i \in 1..Len(pairs) : pairs[i].key = <<"tvg-logo">>
        /\ \A i \in 1..Len(pairs) :
              pairs[i].key = <<"tvg-logo">> => URLParse(pairs[i].value).err

\* The track of line decoded as usual, its tvg-logo attributes left out.
WithoutLogo(line) ==
    LET m == ExtinfLineMatch(line)
        others == SelectSeq(FindAllAttributes(m.m2),
                            LAMBDA p : p.key # <<"tvg-logo">>)
    IN  [SetTrackAttributes([ZeroTrack EXCEPT !.Length = ParseFloat(m.m1)],
                            others)
            EXCEPT !.Name = TrimSpace(m.m3)]

\* C18: an #EXTINF: line whose tvg-logo value fails URL parsing raises no
\* error and gives a track with a nil TVGLogo, no tvg-logo key under
\* ExtraAttributes, and the length, the name and the other attributes of
\* the line.
C18_BadLogoDropped ==
    /\ (pc \in {"loop", "returned"} /\ lineNumber >= 2 /\ IsExtinfLine(LastLine)
            /\ ~OpenBefore(lineNumber) /\ HasBadLogo(LastLine))
          => /\ err = NoError
             /\ currentTrack = <<WithoutLogo(LastLine)>>
             /\ currentTrack[1].TVGLogo = <<>>
             /\ <<"tvg-logo">> \notin DOMAIN currentTrack[1].ExtraAttributes
    /\ (pc \in {"loop", "returned"} /\ lineNumber >= 2)
          => LET extinf == ExtinfLines
             IN  \A k \in 1..Len(playlist.Tracks) :
                    HasBadLogo(extinf[k])
                      => [playlist.Tracks[k] EXCEPT !.URL = <<>>,
                                                   !.ExtraDirectives = <<>>]
                           = WithoutLogo(extinf[k])

C18_Witness ==
    /\ pc = "returned"
    /\ err = NoError
    /\ Len(playlist.Tracks) = 2
    /\ HasBadLogo(LinesRead[4])
    /\ playlist.Tracks[2].TVGLogo = <<>>
    /\ playlist.Tracks[2].TVGName = <<<<"t4">>>>
    /\ playlist.Tracks[2].Length = 30
    /\ playlist.Tracks[2].Name = <<"n4">>

\* C19: when the stream ends inside an #EXTINF block, the TrackIncomplete
\* error carries the number of lines of the stream, the position of the
\* last line of the block.
C19_TrackIncompleteAtLastLine ==
    (pc = "returned" /\ eof /\ err.Message = TrackIncomplete
        /\ consumed # <<>> /\ consumed[Len(consumed)] = Newline)
        => err.LineNumber = Len(SplitLines(consumed))

\* C20: the line counter is 0 before the first read and equals the number
\* of lines read after every read, blank lines counted; a diagnostic raised
\* for an offending line carries the 1-based index of that line in the
\* stream and its text.
C20_LineCounter ==
    /\ pc = "new" => lineNumber = 0
    /\ pc \in {"loop", "returned"} => lineNumber = Len(LinesRead)
    /\ (pc = "returned" /\ err.type = "ErrInvalidPlaylist"
            /\ ~(err.Message = TrackIncomplete /\ err.Line = <<>>))
          => LET read == SplitLines(consumed)
             IN  /\ err.Message \in
                      {HeaderMissing, HeaderMalformed, ExtinfMalformed,
                       DirectiveOutOfOrder, InvalidURL, UnexpectedContent,
                       TrackIncomplete}
                 /\ err.LineNumber = Len(read)
                 /\ read[err.LineNumber] = err.Line

C20_Witness ==
    /\ pc = "returned"
    /\ err.type = "ErrInvalidPlaylist"
    /\ err.Line # <<>>
    /\ err.LineNumber = 5
    /\ \E i \in 2..4 : LinesRead[i] = <<>>
    /\ Len(playlist.Tracks) >= 1

\* -------------------------------------------------------------- C21 .. C30

\* C21: the Basic (M3U) rendering of a playlist carries the header without
\* attributes and, for each track, an #EXTINF: line without attributes and
\* the URL line: no header attribute, no track attribute and no extension
\* directive line.
C21_BasicCarriesNoExtras ==
    (pc = "marshalled" /\ playlistType = "M3U")
        => LET out == SplitLines(output)
           IN  /\ out[1] = <<"#EXTM3U">>
               /\ \A i \in 2..Len(out) :
                     /\ IsExtinfLine(out[i]) \/ IsURLLine(out[i])
                     /\ FindAllAttributes(out[i]) = <<>>

\* The #EXTINF: lines of the output, in order.
OutputExtinfLines == SelectSeq(SplitLines(output), IsExtinfLine)

\* C22: in the Basic (M3U) rendering the #EXTINF: line of every track is
\* exactly #EXTINF:, the length, a comma and the name, whatever attributes
\* the track carries.
C22_BasicExtinfLine ==
    (pc = "marshalled" /\ playlistType = "M3U")
        => LET lines == OutputExtinfLines
           IN  /\ Len(lines) = Len(playlist.Tracks)
               /\ \A k \in 1..Len(lines) :
                     lines[k] = <<"#EXTINF:">>
                                \o FormatFloat0(playlist.Tracks[k].Length)
                                \o <<",">> \o playlist.Tracks[k].Name

C22_Witness ==
    /\ pc = "marshalled"
    /\ playlistType = "M3U"
    /\ \E k \in 1..Len(playlist.Tracks) :
          /\ playlist.Tracks[k].TVGID # <<>>
          /\ playlist.Tracks[k].TVGName # <<>>
          /\ playlist.Tracks[k].TVGLanguage # <<>>
          /\ playlist.Tracks[k].TVGLogo # <<>>
          /\ playlist.Tracks[k].GroupTitle # <<>>
          /\ Cardinality(DOMAIN playlist.Tracks[k].ExtraAttributes) = 2

\* The recognized attributes a track carries, as key and value, in the
\* order tvg-id, tvg-name, tvg-language, tvg-logo, group-title.
PresentAttributes(track) ==
    LET all == << [key |-> "tvg-id", value |-> track.TVGID],
                  [key |-> "tvg-name", value |-> track.TVGName],
                  [key |-> "tvg-language", value |-> track.TVGLanguage],
                  [key |-> "tvg-logo",
                   value |-> IF track.TVGLogo = <<>> THEN <<>>
                             ELSE <<URLString(track.TVGLogo)>>],
                  [key |-> "group-title", value |-> track.GroupTitle] >>
    IN  SelectSeq(all, LAMBDA a : a.value # <<>>)

\* The lines of a track in Plus mode, its extra attributes in the given
\* order: the #EXTINF: line, the extension directives, the URL.
PlusLines(track, order) ==
    LET present == PresentAttributes(track)
    IN  << <<"#EXTINF:">> \o FormatFloat0(track.Length)
           \o Flatten([i \in 1..Len(present) |->
                          <<" ", present[i].key, "=", Quote>>
                          \o present[i].value[1] \o <<Quote>>])
           \o Flatten([i \in 1..Len(order) |->
                          <<" ">> \o order[i] \o <<"=", Quote>>
                          \o track.ExtraAttributes[order[i]] \o <<Quote>>])
           \o <<",">> \o track.Name >>
        \o track.ExtraDirectives
        \o <<URLString(track.URL)>>

\* C23: in the Plus rendering each track gives an #EXTINF: line with the
\* attributes it carries in the order tvg-id, tvg-name, tvg-language,
\* tvg-logo, group-title, then its extra attributes in some order, then the
\* name; its extension directives and its URL follow, one per line.
C23_PlusOrder ==
    (pc = "marshalled" /\ playlistType = "M3UPlus")
        => \E orders \in EncodeOrders(playlist) :
              Tail(SplitLines(output))
                = Flatten([k \in 1..Len(playlist.Tracks) |->
                              PlusLines(playlist.Tracks[k], orders[k + 1])])

C23_Witness ==
    /\ pc = "marshalled"
    /\ playlistType = "M3UPlus"
    /\ Len(playlist.Tracks) = 2
    /\ Len(PresentAttributes(playlist.Tracks[1])) = 1
    /\ Len(PresentAttributes(playlist.Tracks[2])) = 5
    /\ playlist.Tracks[2].ExtraAttributes # <<>>

\* C24: two runs of Marshal on the same playlist with the same format give
\* the same bytes, whatever order the range loops over the extra
\* attributes take.
C24_Deterministic ==
    (pc = "returned" /\ err = NoError)
        => \A t \in {"M3U", "M3UPlus"} :
              \A o1, o2 \in EncodeOrders(playlist) :
                  Marshal(playlist, t, o1) = Marshal(playlist, t, o2)

C26_BadHeaderURLSurfaced ==
    (pc # "new" /\ consumed # <<>>
        /\ Extm3uLineMatch(LinesRead[1]).matched
        /\ \E i \in 1..Len(FindAllAttributes(Tail(LinesRead[1]))) :
              LET pair == FindAllAttributes(Tail(LinesRead[1]))[i]
              IN  pair.key \in PlaylistKeys /\ URLParse(pair.value).err)
        => /\ pc = "returned"
           /\ lineNumber = 1
           /\ err # NoError

\* C27: when the stream ends after a valid header with no track open and no
\* line was rejected, Decode returns success with the tracks of the blocks
\* read; a stream made only of the header line gives an empty Tracks.
C27_EndWithNoOpenTrack ==
    (pc = "returned" /\ eof /\ consumed # <<>>
        /\ Extm3uLineMatch(LinesRead[1]).matched
        /\ currentTrack = <<>>
        /\ err.type # "ErrInvalidPlaylist")
        => /\ err = NoError
           /\ Len(playlist.Tracks) = Len(URLLines)

\* C28: a step of the loop that reads a blank line (empty or whitespace
\* only) followed by a line break changes nothing but the line counter: the
\* tracks, the open track with its directives and the error are as before
\* and the loop goes on.
C28_BlankLineSkipped ==
    [][(/\ pc = "loop"
        /\ lineNumber' = lineNumber + 1
        /\ ~eof'
        /\ TrimSpace(SubSeq(consumed', Len(consumed) + 1, Len(consumed')))
             = <<>>)
          => /\ pc' = "loop"
             /\ playlist' = playlist
             /\ currentTrack' = currentTrack
             /\ err' = err]_vars

C28_Witness ==
    /\ pc = "loop"
    /\ ~eof
    /\ consumed[Len(consumed) - 1] = " "
    /\ LastLine = <<>>
    /\ currentTrack # <<>>
    /\ currentTrack[1].ExtraDirectives # <<>>

\* The value of the last pair of pairs that has the key.
LastValue(pairs, key) ==
    LET last == CHOOSE i \in 1..Len(pairs) :
                    /\ pairs[i].key = key
                    /\ \A j \in (i + 1)..Len(pairs) : pairs[j].key # key
    IN  pairs[last].value

\* The field of a track that belongs to a recognized key.
TrackField(track, key) ==
    CASE key = <<"tvg-id">> -> track.TVGID
      [] key = <<"tvg-name">> -> track.TVGName
      [] key = <<"tvg-language">> -> track.TVGLanguage
      [] key = <<"tvg-logo">> -> track.TVGLogo
      [] key = <<"group-title">> -> track.GroupTitle

\* C29: after a successful decode every field and every extra attribute of
\* a track holds the value of the last occurrence of its key on the track's
\* #EXTINF: line, the URL-typed tvg-logo as the URL that value parses to.
C29_LastValueWins ==
    (pc = "returned" /\ err = NoError)
        => \A k \in 1..Len(playlist.Tracks) :
              LET track == playlist.Tracks[k]
                  pairs == FindAllAttributes(
                               ExtinfLineMatch(ExtinfLines[k]).m2)
              IN  \A i \in 1..Len(pairs) :
                     LET key   == pairs[i].key
                         value == LastValue(pairs, key)
                     IN  IF key = <<"tvg-logo">>
                         THEN track.TVGLogo = URLParse(value).url
                         ELSE IF key \in TrackKeys
                         THEN TrackField(track, key) = <<value>>
                         ELSE track.ExtraAttributes[key] = value

\* The #EXTINF: lines read that opened a track: all of them but one that
\* Decode rejected.
AcceptedExtinfLines ==
    Len(ExtinfLines)
    - (IF err.type = "ErrInvalidPlaylist" /\ err.LineNumber >= 2
          /\ IsExtinfLine(err.Line)
       THEN 1 ELSE 0)

\* C30: at most one track is open and the open track has no URL; the
\* #EXTINF: lines accepted so far are one more than the tracks of Tracks
\* when a track is open and as many when none is; a line rejected as
\* UnexpectedContent was read while no track was open.
C30_OneOpenTrack ==
    /\ Len(currentTrack) <= 1
    /\ currentTrack # <<>> => currentTrack[1].URL = <<>>
    /\ consumed # <<>> =>
          LET open == AcceptedExtinfLines - Len(playlist.Tracks)
          IN  open \in {0, 1} /\ open = Len(currentTrack)
    /\ err.Message = UnexpectedContent => ~OpenBefore(err.LineNumber)

C30_Witness ==
    /\ pc = "loop"
    /\ Len(playlist.Tracks) = 1
    /\ currentTrack # <<>>
    /\ AcceptedExtinfLines = 2

\* -------------------------------------------------------------- C31 .. C32

\* The part of the stream the latest Decode call has read.
ThisCall ==
    IF first = <<>> THEN consumed
    ELSE SubSeq(consumed, first[1].read + 1, Len(consumed))

\* The keys of the key="value" pairs of header line h.
AttributeKeys(h) ==
    IF h = <<>> THEN {}
    ELSE LET pairs == FindAllAttributes(Tail(h))
         IN  {pairs[i].key : i \in 1..Len(pairs)}

\* C31: once Decode has been called the caller's Playlist holds nothing of
\* what it held before the call, whether the call fails or not: its tracks
\* are at most as many as the URL lines this call read and none is the
\* track handed in, its header attributes are among the keys of the header
\* line this call read; the playlist of a successful Decode is the one a
\* fresh Decoder gives for what this call read of the stream.
C31_PlaylistOverwritten ==
    pc \in {"loop", "returned"}
        => LET lines == SplitLines(ThisCall)
               urls  == IF lines = <<>> THEN <<>>
                        ELSE SelectSeq(Tail(lines),
                                 LAMBDA l : l # <<>> /\ ~HasPrefix(l, "#"))
               keys  == IF lines = <<>> THEN {} ELSE AttributeKeys(lines[1])
           IN  /\ Len(playlist.Tracks) <= Len(urls)
               /\ \A k \in 1..Len(playlist.Tracks) :
                     playlist.Tracks[k] # UsedPlaylist.Tracks[1]
               /\ DOMAIN playlist.ExtraAttributes \subseteq keys
               /\ playlist.TVGURL # <<>> => <<"url-tvg">> \in keys
               /\ playlist.XTVGURL # <<>> => <<"x-tvg-url">> \in keys
               /\ (pc = "returned" /\ err = NoError)
                     => playlist = Decode(0, ThisCall).playlist

C31_Witness ==
    /\ first # <<>>
    /\ first[1].playlist.ExtraAttributes # <<>>
    /\ first[1].playlist.TVGURL # <<>>
    /\ pc = "returned"
    /\ err = NoError
    /\ Len(playlist.Tracks) = 1
    /\ playlist.ExtraAttributes = <<>>
    /\ playlist.TVGURL = <<>>

\* C32: a Decode called again on a Decoder goes on where the call before it
\* stopped.  Its header line is the line of the stream after the last one
\* that call read, not the first line of the stream: when that line does
\* not begin with #EXTM3U the call fails with HeaderMissing for it.  The
\* counter goes on from that call's count, so it is the number of lines of
\* the stream read so far and a diagnostic carries the index of its line in
\* the whole stream.  When that call had read the stream to its end this
\* one reads nothing, and a call whose header read reaches the end of the
\* stream returns io.EOF and leaves an empty playlist.
C32_DecoderKeepsPosition ==
    first # <<>>
        => LET f    == first[1]
               read == SplitLines(consumed)
           IN  /\ Len(consumed) >= f.read
               /\ f.eof => ThisCall = <<>>
               /\ IF eof /\ lineNumber = f.lineNumber + 1
                  THEN /\ pc = "returned"
                       /\ err = EOF
                       /\ playlist = ZeroPlaylist
                  ELSE /\ lineNumber > f.lineNumber
                       /\ lineNumber = Len(LinesRead)
                       /\ ~HasPrefix(read[f.lineNumber + 1], "#EXTM3U")
                             => /\ pc = "returned"
                                /\ err = ErrInvalidPlaylist(
                                            HeaderMissing, f.lineNumber + 1,
                                            read[f.lineNumber + 1])
                       /\ (err.type = "ErrInvalidPlaylist"
                             /\ ~(err.Message = TrackIncomplete
                                    /\ err.Line = <<>>))
                             => /\ err.LineNumber = Len(read)
                                /\ err.LineNumber > f.lineNumber
                                /\ read[err.LineNumber] = err.Line

C32_Witness ==
    /\ first # <<>>
    /\ first[1].lineNumber = 2
    /\ first[1].err.type = "ErrInvalidPlaylist"
    /\ pc = "returned"
    /\ err.type = "ErrInvalidPlaylist"
    /\ err.LineNumber = 5
    /\ err.Line # <<>>

====
